---- MODULE Spec2Model ----
(***************************************************************************)
(* Model of the two operational scripts of the repository:                 *)
(*   scripts/patch-wasm-types.py  (the Dependency Patcher)                 *)
(*   scripts/run-manticore.py     (the Analysis Runner)                    *)
(*                                                                         *)
(* Text is a sequence of tokens.  Every literal the scripts search for is  *)
(* a sequence of whole tokens, so Python's substring test, str.replace,    *)
(* str.split, str.strip and str.startswith are modelled by the same        *)
(* operations on token sequences.  Filesystem reads, writes and prints are *)
(* taken to succeed.                                                       *)
(***************************************************************************)
EXTENDS Integers, Sequences, FiniteSets, TLC

VARIABLES
    \* ---- Dependency Patcher ----
    installed,      \* the package directories that hold wasm/types.py
    file,           \* content of the wasm/types.py the Patcher finds
    prev_file,      \* content that the latest Patcher run read
    wrote,          \* whether the latest Patcher run wrote the file
    patch_out,      \* what the latest Patcher run printed
    patch_exit,     \* exit status of the latest Patcher run (NoExit: none yet)
    runs,           \* Patcher runs so far, counted up to 2
    writes          \* Patcher runs that wrote the file, counted up to 2

patcher_vars ==
    <<installed, file, prev_file, wrote, patch_out, patch_exit, runs, writes>>

VARIABLES
    \* ---- Analysis Runner ----
    pc,             \* the Runner's position in main()
    args,           \* the parsed command line: contract_path, contract
    root,           \* names of the entries of the project root
    remappings_txt, \* the lines of remappings.txt, as file iteration yields them
    remappings,     \* the list `remappings`
    cmd,            \* the list `cmd`
    spawns,         \* calls of subprocess.run so far
    child,          \* how the subprocess.run call ended
    stdout,         \* the lines the Runner printed to stdout
    stderr,         \* the lines the Runner printed to stderr
    exit_status     \* the Runner's exit status (NoExit: still running)

runner_vars ==
    <<pc, args, root, remappings_txt, remappings, cmd, spawns, child,
      stdout, stderr, exit_status>>

vars == <<patcher_vars, runner_vars>>

NoExit == 0 - 1

(***************************************************************************)
(* Python string operations, on token sequences.                           *)
(***************************************************************************)
NL == "\n"
Whitespace == {" ", NL, "\t"}

\* s.startswith(p)
StartsWith(s, p) == Len(s) >= Len(p) /\ SubSeq(s, 1, Len(p)) = p

\* pat in s
Contains(s, pat) ==
    \E i \in 1..(Len(s) - Len(pat) + 1) : SubSeq(s, i, i + Len(pat) - 1) = pat

\* s.replace(old, new): every non-overlapping occurrence, left to right
RECURSIVE Replace(_, _, _)
Replace(s, old, new) ==
    IF Len(s) < Len(old) THEN s
    ELSE IF StartsWith(s, old)
         THEN new \o Replace(SubSeq(s, Len(old) + 1, Len(s)), old, new)
         ELSE <<Head(s)>> \o Replace(Tail(s), old, new)

\* s.split('\n'): always at least one (possibly empty) element
RECURSIVE Split(_)
Split(s) ==
    IF \A i \in 1..Len(s) : s[i] # NL THEN <<s>>
    ELSE LET k == CHOOSE i \in 1..Len(s) :
                      s[i] = NL /\ \A j \in 1..(i - 1) : s[j] # NL
         IN  <<SubSeq(s, 1, k - 1)>> \o Split(SubSeq(s, k + 1, Len(s)))

\* '\n'.join(lines)
RECURSIVE Join(_)
Join(lines) ==
    IF Len(lines) = 0 THEN <<>>
    ELSE IF Len(lines) = 1 THEN lines[1]
    ELSE lines[1] \o <<NL>> \o Join(Tail(lines))

\* s.strip()
RECURSIVE LStrip(_)
LStrip(s) == IF Len(s) > 0 /\ Head(s) \in Whitespace THEN LStrip(Tail(s)) ELSE s

RECURSIVE RStrip(_)
RStrip(s) ==
    IF Len(s) > 0 /\ s[Len(s)] \in Whitespace
    THEN RStrip(SubSeq(s, 1, Len(s) - 1)) ELSE s

Strip(s) == RStrip(LStrip(s))

\* lines.insert(pos, x), pos 0-based
ListInsert(lines, pos, x) ==
    SubSeq(lines, 1, pos) \o <<x>> \o SubSeq(lines, pos + 1, Len(lines))

(***************************************************************************)
(* The literals of patch-wasm-types.py.                                    *)
(***************************************************************************)
TQ  == "\"\"\""
TSQ == "'''"

collections_Callable     == <<"collections", ".Callable">>
collections_abc_Callable == <<"collections", ".abc", ".Callable">>
collections_abc          == <<"collections", ".abc">>
from_collections_abc_import ==
    <<"from", " ", "collections", ".abc", " ", "import">>
import_collections       == <<"import", " ", "collections">>
import_collections_abc   == <<"import", " ", "collections", ".abc">>

(***************************************************************************)
(* patch-wasm-types.py                                                     *)
(***************************************************************************)
\* site.getsitepackages() in its fixed order, then site.getusersitepackages()
SitePackages == <<"site-packages">>
UserSite     == "user-site"

\* find_wasm_types(): the first directory that holds wasm/types.py, or "None"
RECURSIVE FirstInstalled(_, _)
FirstInstalled(dirs, have) ==
    IF Len(dirs) = 0 THEN "None"
    ELSE IF Head(dirs) \in have THEN Head(dirs)
    ELSE FirstInstalled(Tail(dirs), have)

find_wasm_types(have) ==
    IF FirstInstalled(SitePackages, have) # "None"
    THEN FirstInstalled(SitePackages, have)
    ELSE IF UserSite \in have THEN UserSite ELSE "None"

\* patch_file, the "already patched" test
AlreadyPatched(content) ==
    /\ Contains(content, collections_abc)
    /\ Contains(content, from_collections_abc_import)

\* the line the fallback loop skips: a comment or a line opening a docstring
SkippedLine(line) ==
    \/ StartsWith(Strip(line), <<"#">>)
    \/ StartsWith(Strip(line), <<TQ>>)
    \/ StartsWith(Strip(line), <<TSQ>>)

\* the fallback loop: index (0-based) of the first line that is not skipped,
\* 0 when every line is skipped
InsertPos(lines) ==
    IF \E i \in 1..Len(lines) : ~SkippedLine(lines[i])
    THEN (CHOOSE i \in 1..Len(lines) :
              /\ ~SkippedLine(lines[i])
              /\ \A j \in 1..(i - 1) : SkippedLine(lines[j])) - 1
    ELSE 0

NeedsImport_Always(content) == TRUE

\* the guard of the import step
NeedsImport(content) == ~Contains(content, import_collections_abc)

\* patch_file, "Add import if not present"
EnsureImport(content) ==
    IF NeedsImport(content)
    THEN IF Contains(content, import_collections)
         THEN Replace(content,
                      import_collections \o <<NL>>,
                      import_collections \o <<NL>> \o import_collections_abc \o <<NL>>)
         ELSE Join(ListInsert(Split(content), InsertPos(Split(content)),
                              import_collections_abc))
    ELSE content

\* patch_file, "Replace all instances"
ReplaceCallable(content) ==
    Replace(content, collections_Callable, collections_abc_Callable)

\* the content patch_file computes when the file is not "already patched"
Transformed(content) == ReplaceCallable(EnsureImport(content))

ShouldWrite_Always(content, original_content) == TRUE

\* patch_file, the guard of the write
ShouldWrite(content, original_content) == content # original_content

\* patch_file(file_path) on a file holding `content`
patch_file(content) ==
    IF AlreadyPatched(content)
    THEN [content |-> content, wrote |-> FALSE,
          out |-> <<"Patching", "File already patched.">>]
    ELSE IF ShouldWrite(Transformed(content), content)
    THEN [content |-> Transformed(content), wrote |-> TRUE,
          out |-> <<"Patching", "File patched successfully.">>]
    ELSE [content |-> content, wrote |-> FALSE,
          out |-> <<"Patching", "No changes needed.">>]

\* main(), wasm/types.py not found
PatcherNotFound ==
    /\ find_wasm_types(installed) = "None"
    /\ patch_out' = <<"Error: Could not find wasm/types.py">>
    /\ patch_exit' = 1
    /\ wrote' = FALSE
    /\ prev_file' = file
    /\ runs' = IF runs < 2 THEN runs + 1 ELSE 2
    /\ UNCHANGED <<installed, file, writes>>
    /\ UNCHANGED runner_vars

\* main(), wasm/types.py found and patched
PatcherMain ==
    /\ find_wasm_types(installed) # "None"
    /\ LET r == patch_file(file)
       IN  /\ file' = r.content
           /\ wrote' = r.wrote
           /\ patch_out' = r.out \o <<"Patch applied successfully!">>
           /\ writes' = IF r.wrote /\ writes < 2 THEN writes + 1 ELSE writes
    /\ prev_file' = file
    /\ patch_exit' = 0
    /\ runs' = IF runs < 2 THEN runs + 1 ELSE 2
    /\ UNCHANGED installed
    /\ UNCHANGED runner_vars

\* ---- the files the Patcher is run on ----
MaxFileLines == 3

LineKinds == {
    import_collections,
    <<"import", " ", "collections", ",", "x">>,
    import_collections_abc,
    <<"from", " ", "collections", ".abc", " ", "import", " ", "x">>,
    <<"x", "=", "collections", ".Callable">>,
    <<"x", "=", "collections", ".abc", ".Callable">>,
    <<"#", "x">>,
    <<TQ>>,
    <<"x">> }

FileContents ==
    { Join(ls) \o tail :
        ls \in UNION { [1..n -> LineKinds] : n \in 0..MaxFileLines },
        tail \in {<<>>, <<NL>>} }

PatcherIdle ==
    /\ installed = {}
    /\ file = <<>>
    /\ prev_file = <<>>
    /\ wrote = FALSE
    /\ patch_out = <<>>
    /\ patch_exit = NoExit
    /\ runs = 0
    /\ writes = 0

(***************************************************************************)
(* run-manticore.py                                                        *)
(***************************************************************************)
remappings_file == <<"remappings.txt">>
node_modules    == <<"node_modules">>
mcore_prefix    == <<"mcore_">>

\* a printed line: its text, and the return code or path it interpolates
Msg(text)           == [text |-> text, code |-> 0, path |-> <<>>]
MsgCode(text, code) == [text |-> text, code |-> code, path |-> <<>>]
MsgPath(text, path) == [text |-> text, code |-> 0, path |-> path]

RemappingsExists(entries) == remappings_file \in entries

NodeModulesExists_Skipped(entries) == TRUE

NodeModulesExists(entries) == node_modules \in entries

KeepLine_NoCommentTest(line) == line # <<>>

\* `if line and not line.startswith('#')`, on the stripped line
KeepLine(line) == line # <<>> /\ ~StartsWith(line, <<"#">>)

\* the loop over the lines of remappings.txt
RECURSIVE ReadRemappings(_)
ReadRemappings(lines) ==
    IF Len(lines) = 0 THEN <<>>
    ELSE (IF KeepLine(Strip(Head(lines))) THEN <<Strip(Head(lines))>> ELSE <<>>)
         \o ReadRemappings(Tail(lines))

RemapArgs_NoFlag(remap) == <<remap>>

\* what one remapping adds to the command
RemapArgs(remap) == <<"--solc-remaps", remap>>

\* the loop `for remap in remappings: cmd.extend([...])`
RECURSIVE ExtendRemaps(_, _)
ExtendRemaps(c, remaps) ==
    IF Len(remaps) = 0 THEN c
    ELSE ExtendRemaps(c \o RemapArgs(Head(remaps)), Tail(remaps))

\* "Build the manticore command"
BuildCommand(a, remaps) ==
    ExtendRemaps(<<"manticore", a.contract_path>> \o <<"--contract", a.contract>>,
                 remaps) \o <<"-v">>

\* the status the process ends with on sys.exit(code)
SysExit(code) == code % 256

ReturnedExit_Swallowed(returncode) == 0

\* sys.exit(result.returncode)
ReturnedExit(returncode) == SysExit(returncode)

TimeoutExit_AsSuccess == SysExit(0)

\* sys.exit(124), "Standard timeout exit code"
TimeoutExit == SysExit(124)

Glob_Nothing(entries) == {}

\* project_root.glob("mcore_*")
Glob(entries) == { e \in entries : StartsWith(e, mcore_prefix) }

\* the orders in which the glob may yield the entries it matches
Listings(found) ==
    { l \in [1..Cardinality(found) -> found] :
        \A i, j \in 1..Cardinality(found) : i # j => l[i] # l[j] }

\* the lines printed for the entries found, under `header`
ListDirs(header, listing) ==
    <<Msg(header)>> \o [i \in 1..Len(listing) |-> MsgPath("  - ", listing[i])]

\* lines 28-32: remappings.txt must exist
CheckRemappings ==
    /\ pc = "check_remappings"
    /\ IF ~RemappingsExists(root)
       THEN /\ stderr' = stderr \o <<Msg("Error: remappings.txt not found")>>
            /\ exit_status' = SysExit(1)
            /\ pc' = "done"
       ELSE /\ pc' = "check_node_modules"
            /\ UNCHANGED <<stderr, exit_status>>
    /\ UNCHANGED <<args, root, remappings_txt, remappings, cmd, spawns, child,
                   stdout>>
    /\ UNCHANGED patcher_vars

\* lines 34-39: node_modules must exist
CheckNodeModules ==
    /\ pc = "check_node_modules"
    /\ IF ~NodeModulesExists(root)
       THEN /\ stderr' = stderr \o <<Msg("Error: node_modules not found"),
                                     Msg("Please run 'npm ci' first")>>
            /\ exit_status' = SysExit(1)
            /\ pc' = "done"
       ELSE /\ pc' = "read_remappings"
            /\ UNCHANGED <<stderr, exit_status>>
    /\ UNCHANGED <<args, root, remappings_txt, remappings, cmd, spawns, child,
                   stdout>>
    /\ UNCHANGED patcher_vars

\* lines 41-50: read the remappings
ReadRemappingsFile ==
    /\ pc = "read_remappings"
    /\ remappings' = ReadRemappings(remappings_txt)
    /\ stdout' = stdout \o <<Msg("Using remappings")>>
    /\ pc' = "build_command"
    /\ UNCHANGED <<args, root, remappings_txt, cmd, spawns, child, stderr,
                   exit_status>>
    /\ UNCHANGED patcher_vars

\* lines 52-66: build the command
BuildManticoreCommand ==
    /\ pc = "build_command"
    /\ cmd' = BuildCommand(args, remappings)
    /\ stdout' = stdout \o <<Msg("Running command"), Msg("Starting Manticore analysis")>>
    /\ pc' = "run"
    /\ UNCHANGED <<args, root, remappings_txt, remappings, spawns, child, stderr,
                   exit_status>>
    /\ UNCHANGED patcher_vars

\* what the child may return: exit codes, and -N when signal N killed it
ReturnCodes == {0, 3, 124, 0 - 9}

\* what the child may leave in the project root
ChildOutputs == { {}, {mcore_prefix \o <<"2">>, <<"mcore">>} }

\* lines 69-76: subprocess.run returns a result
RunReturns ==
    /\ pc = "run"
    /\ spawns' = spawns + 1
    /\ \E c \in ReturnCodes : child' = [outcome |-> "returned", returncode |-> c]
    /\ \E made \in ChildOutputs : root' = root \cup made
    /\ pc' = "returned"
    /\ UNCHANGED <<args, remappings_txt, remappings, cmd, stdout, stderr,
                   exit_status>>
    /\ UNCHANGED patcher_vars

\* lines 69-76: subprocess.run raises TimeoutExpired; returncode is what the
\* child would have returned had it been left to run
RunTimesOut ==
    /\ pc = "run"
    /\ spawns' = spawns + 1
    /\ \E c \in {0, 3} : child' = [outcome |-> "timeout", returncode |-> c]
    /\ \E made \in ChildOutputs : root' = root \cup made
    /\ pc' = "timeout"
    /\ UNCHANGED <<args, remappings_txt, remappings, cmd, stdout, stderr,
                   exit_status>>
    /\ UNCHANGED patcher_vars

\* lines 69-76: subprocess.run raises FileNotFoundError or another Exception
RunRaises ==
    /\ pc = "run"
    /\ spawns' = spawns + 1
    /\ \E o \in {"not_found", "error"} :
           /\ child' = [outcome |-> o, returncode |-> 0]
           /\ pc' = o
    /\ UNCHANGED <<args, root, remappings_txt, remappings, cmd, stdout, stderr,
                   exit_status>>
    /\ UNCHANGED patcher_vars

\* lines 78-92: report, list the results, exit with the child's code
Returned ==
    /\ pc = "returned"
    /\ \E listing \in Listings(Glob(root)) :
         stdout' = stdout
            \o <<IF child.returncode = 0
                 THEN Msg("Manticore analysis completed successfully!")
                 ELSE MsgCode("Manticore analysis completed with warnings",
                              child.returncode)>>
            \o (IF Len(listing) > 0
                THEN ListDirs("Results saved in:", listing)
                ELSE <<Msg("No mcore_* directories found")>>)
    /\ exit_status' = ReturnedExit(child.returncode)
    /\ pc' = "done"
    /\ UNCHANGED <<args, root, remappings_txt, remappings, cmd, spawns, child,
                   stderr>>
    /\ UNCHANGED patcher_vars

\* lines 94-106: report the timeout, list partial results, exit 124
TimedOut ==
    /\ pc = "timeout"
    /\ \E listing \in Listings(Glob(root)) :
         stdout' = stdout
            \o <<Msg("Manticore analysis timed out"),
                 Msg("Partial results may be available in mcore_* directories")>>
            \o (IF Len(listing) > 0
                THEN ListDirs("Partial results found in:", listing)
                ELSE <<>>)
    /\ exit_status' = TimeoutExit
    /\ pc' = "done"
    /\ UNCHANGED <<args, root, remappings_txt, remappings, cmd, spawns, child,
                   stderr>>
    /\ UNCHANGED patcher_vars

\* lines 108-111: the manticore binary is missing
NotFound ==
    /\ pc = "not_found"
    /\ stderr' = stderr \o <<Msg("Error: manticore command not found"),
                             Msg("Please ensure Manticore is installed")>>
    /\ exit_status' = SysExit(1)
    /\ pc' = "done"
    /\ UNCHANGED <<args, root, remappings_txt, remappings, cmd, spawns, child,
                   stdout>>
    /\ UNCHANGED patcher_vars

\* lines 113-117: any other exception
UnexpectedError ==
    /\ pc = "error"
    /\ stderr' = stderr \o <<Msg("Unexpected error running Manticore"),
                             Msg("Traceback")>>
    /\ exit_status' = SysExit(1)
    /\ pc' = "done"
    /\ UNCHANGED <<args, root, remappings_txt, remappings, cmd, spawns, child,
                   stdout>>
    /\ UNCHANGED patcher_vars

\* ---- the runs of the Runner ----
MaxLines == 3

RemappingLines == {
    <<" ", NL>>,
    <<" ", "#", "c", NL>>,
    <<"a=b", NL>>,
    <<" ", "a=b", " ", NL>>,
    <<"c=d", "#", NL>> }

RemappingFiles == UNION { [1..n -> RemappingLines] : n \in 0..MaxLines }

CommandLines == {
    [contract_path |-> "contracts/A.sol", contract |-> "A"],
    [contract_path |-> "B.sol", contract |-> "B"] }

\* what the project root may hold before the run
RootBefore ==
    { config \cup old :
        config \in SUBSET {remappings_file, node_modules},
        old \in { {}, {mcore_prefix \o <<"1">>}, {mcore_prefix, <<"x", "mcore_">>} } }

RunnerIdle ==
    /\ pc = "idle"
    /\ args = [contract_path |-> "", contract |-> ""]
    /\ root = {}
    /\ remappings_txt = <<>>
    /\ remappings = <<>>
    /\ cmd = <<>>
    /\ spawns = 0
    /\ child = [outcome |-> "none", returncode |-> 0]
    /\ stdout = <<>>
    /\ stderr = <<>>
    /\ exit_status = NoExit

RunnerInit ==
    /\ pc = "check_remappings"
    /\ args \in CommandLines
    /\ root \in RootBefore
    /\ remappings_txt \in IF remappings_file \in root /\ node_modules \in root
                          THEN RemappingFiles ELSE {<<>>}
    /\ remappings = <<>>
    /\ cmd = <<>>
    /\ spawns = 0
    /\ child = [outcome |-> "none", returncode |-> 0]
    /\ stdout = <<>>
    /\ stderr = <<>>
    /\ exit_status = NoExit

Init == RunnerInit /\ PatcherIdle

Next ==
    \/ CheckRemappings
    \/ CheckNodeModules
    \/ ReadRemappingsFile
    \/ BuildManticoreCommand
    \/ RunReturns
    \/ RunTimesOut
    \/ RunRaises
    \/ Returned
    \/ TimedOut
    \/ NotFound
    \/ UnexpectedError

Spec == Init /\ [][Next]_vars

PatcherInit ==
    /\ installed \in SUBSET {SitePackages[1], UserSite}
    /\ file \in IF installed = {} THEN {<<>>} ELSE FileContents
    /\ prev_file = <<>>
    /\ wrote = FALSE
    /\ patch_out = <<>>
    /\ patch_exit = NoExit
    /\ runs = 0
    /\ writes = 0
    /\ RunnerIdle

PatcherNext == PatcherMain \/ PatcherNotFound

PatcherSpec == PatcherInit /\ [][PatcherNext]_vars

(***************************************************************************)
(* Claims about the Analysis Runner (checked under Spec).                  *)
(***************************************************************************)
Ended == pc = "done"

PassedChecks == remappings_file \in root /\ node_modules \in root

HasRead ==
    \/ pc \in {"build_command", "run", "returned", "timeout", "not_found", "error"}
    \/ Ended /\ spawns > 0

HasBuilt ==
    \/ pc \in {"run", "returned", "timeout", "not_found", "error"}
    \/ Ended /\ spawns > 0

StdoutHas(text) == \E i \in 1..Len(stdout) : stdout[i].text = text
StderrHas(text) == \E i \in 1..Len(stderr) : stderr[i].text = text

WarningPrinted ==
    /\ \E i \in 1..Len(stdout) :
          /\ stdout[i].text = "Manticore analysis completed with warnings"
          /\ stdout[i].code = child.returncode
    /\ stderr = <<>>

\* the part of C1 that the amendment leaves as stated
C1_Common ==
    /\ child.outcome \in {"returned", "timeout", "not_found", "error"}
    /\ exit_status \in 0..255
    /\ (child.outcome = "returned" /\ child.returncode = 0) =>
            (exit_status = 0 /\ ~StdoutHas("Manticore analysis completed with warnings"))
    /\ (child.outcome = "returned" /\ child.returncode # 0) => WarningPrinted
    /\ child.outcome = "timeout" => exit_status = 124
    /\ child.outcome = "not_found" =>
            (exit_status = 1 /\ StderrHas("Error: manticore command not found"))
    /\ child.outcome = "error" =>
            (exit_status = 1 /\ StderrHas("Unexpected error running Manticore"))

\* C1 as stated: a run that passes both setup checks ends in the exit the
\* child's outcome decides: 0 on 0, the same code c on a nonzero c (with a
\* warning), 124 on timeout, 1 on a missing binary or another exception.
C1_Original ==
    /\ (PassedChecks /\ ~Ended) => ENABLED Next
    /\ (PassedChecks /\ Ended) =>
        /\ C1_Common
        /\ (child.outcome = "returned" /\ child.returncode # 0) =>
                exit_status = child.returncode

\* C1 as amended: as stated, except that the code c the Runner exits with on
\* a nonzero return code is c itself only for c in 1..255; when the child
\* was killed by signal N (return code -N) the Runner exits with 256 - N.
C1_ExitFollowsOutcome ==
    /\ (PassedChecks /\ ~Ended) => ENABLED Next
    /\ (PassedChecks /\ Ended) =>
        /\ C1_Common
        /\ (child.outcome = "returned" /\ child.returncode > 0) =>
                exit_status = child.returncode
        /\ (child.outcome = "returned" /\ child.returncode < 0) =>
                exit_status = 256 + child.returncode

\* a run whose child was killed by a signal has ended
C1_Witness ==
    /\ PassedChecks
    /\ Ended
    /\ child.outcome = "returned"
    /\ child.returncode < 0
    /\ exit_status = 247

\* C2 as stated: the Runner exits 124 if and only if the timeout elapsed.
C2_Original ==
    Ended => (exit_status = 124 <=> child.outcome = "timeout")

\* C2 as amended: the Runner exits 124 whenever the timeout elapsed, and
\* otherwise only when the child itself returned 124.
C2_TimeoutSentinel ==
    Ended =>
        /\ child.outcome = "timeout" => exit_status = 124
        /\ exit_status = 124 =>
              \/ child.outcome = "timeout"
              \/ child.outcome = "returned" /\ child.returncode = 124

\* a timed-out run, whose child would have returned 3, has ended
C2_Witness ==
    /\ Ended
    /\ child.outcome = "timeout"
    /\ child.returncode = 3
    /\ exit_status = 124

\* C3: with remappings.txt or node_modules missing the Runner exits 1 and
\* subprocess.run is never called; each reason has its own message, and the
\* remappings message is the one printed when both are missing.
C3_SetupChecks ==
    /\ spawns > 0 => PassedChecks
    /\ (Ended /\ remappings_file \notin root) =>
          /\ exit_status = 1
          /\ spawns = 0
          /\ stderr = <<Msg("Error: remappings.txt not found")>>
    /\ (Ended /\ remappings_file \in root /\ node_modules \notin root) =>
          /\ exit_status = 1
          /\ spawns = 0
          /\ stderr[1] = Msg("Error: node_modules not found")
          /\ ~StderrHas("Error: remappings.txt not found")

\* a run with both missing has ended
C3_Witness ==
    /\ Ended
    /\ remappings_file \notin root
    /\ node_modules \notin root
    /\ exit_status = 1

\* positions of the tokens of a line that are not whitespace
NonWs(line) == { i \in 1..Len(line) : line[i] \notin Whitespace }

SetMin(S) == CHOOSE x \in S : \A y \in S : x <= y
SetMax(S) == CHOOSE x \in S : \A y \in S : x >= y

\* a valid entry: some token is not whitespace, and the first such is not '#'
IsEntryLine(line) == NonWs(line) # {} /\ line[SetMin(NonWs(line))] # "#"

\* the entry a line holds, between its surrounding whitespace
EntryOf(line) == SubSeq(line, SetMin(NonWs(line)), SetMax(NonWs(line)))

EntryLines == { i \in 1..Len(remappings_txt) : IsEntryLine(remappings_txt[i]) }

\* the k-th entry line of the file
NthEntryLine(k) ==
    CHOOSE i \in EntryLines : Cardinality({ j \in EntryLines : j < i }) = k - 1

\* C4: the parsed list is exactly the valid entries of the file, in file
\* order, with comment and blank lines left out and duplicates kept.
C4_ParsedEntries ==
    HasRead =>
        /\ Len(remappings) = Cardinality(EntryLines)
        /\ \A k \in 1..Len(remappings) :
               remappings[k] = EntryOf(remappings_txt[NthEntryLine(k)])

\* a file of three lines, two of them the same entry, has been read
C4_Witness ==
    /\ HasRead
    /\ Len(remappings_txt) = 3
    /\ Len(remappings) = 2
    /\ remappings[1] = remappings[2]
    /\ \E i \in 1..3 : ~IsEntryLine(remappings_txt[i])

\* C5: the command is 'manticore', the contract path, '--contract', the
\* contract name, one '--solc-remaps' r pair per remapping in list order,
\* then '-v'.
C5_CommandShape ==
    HasBuilt =>
        LET n == Len(remappings)
        IN  /\ Len(cmd) = 2 * n + 5
            /\ cmd[1] = "manticore"
            /\ cmd[2] = args.contract_path
            /\ cmd[3] = "--contract"
            /\ cmd[4] = args.contract
            /\ \A i \in 1..n : /\ cmd[3 + 2 * i] = "--solc-remaps"
                               /\ cmd[4 + 2 * i] = remappings[i]
            /\ cmd[2 * n + 5] = "-v"

\* a command with two different remappings has been built
C5_Witness ==
    /\ HasBuilt
    /\ Len(remappings) = 2
    /\ remappings[1] # remappings[2]
    /\ Len(cmd) = 9

\* the entries of the project root named mcore_...
McoreEntries == { e \in root : Len(e) >= 1 /\ e[1] = "mcore_" }

ListedAt == { i \in 1..Len(stdout) : stdout[i].text = "  - " }

ListedPaths == { stdout[i].path : i \in ListedAt }

\* every listed path stands below the header
ListedUnder(header) ==
    \E h \in 1..Len(stdout) :
        /\ stdout[h].text = header
        /\ \A i \in ListedAt : i > h

\* C10: a run whose child returned or timed out lists, before it exits, each
\* mcore_ entry of the project root once, as results (returned) or partial
\* results (timeout), and exits with the status its outcome decides; a run
\* whose spawn raised lists nothing.
C10_ScanAfterRun ==
    Ended =>
        /\ child.outcome \in {"returned", "timeout"} =>
              /\ ListedPaths = McoreEntries
              /\ Cardinality(ListedAt) = Cardinality(McoreEntries)
        /\ (child.outcome = "returned" /\ McoreEntries # {}) =>
              /\ ListedUnder("Results saved in:")
              /\ ~StdoutHas("Partial results found in:")
        /\ (child.outcome = "timeout" /\ McoreEntries # {}) =>
              /\ ListedUnder("Partial results found in:")
              /\ ~StdoutHas("Results saved in:")
        /\ child.outcome = "returned" =>
              exit_status = (256 + child.returncode) % 256
        /\ child.outcome = "timeout" => exit_status = 124
        /\ child.outcome \notin {"returned", "timeout"} =>
              /\ ListedAt = {}
              /\ ~StdoutHas("Results saved in:")
              /\ ~StdoutHas("Partial results found in:")

\* a timed-out run that listed two partial results has ended
C10_Witness ==
    /\ Ended
    /\ child.outcome = "timeout"
    /\ Cardinality(ListedPaths) = 2
    /\ StdoutHas("Partial results found in:")
    /\ exit_status = 124

(***************************************************************************)
(* Claims about the Dependency Patcher (checked under PatcherSpec).        *)
(***************************************************************************)
PatcherRan == runs >= 1 /\ patch_exit = 0

ReportedSuccess ==
    /\ patch_exit = 0
    /\ Len(patch_out) = 3
    /\ patch_out[2] \in {"File already patched.", "No changes needed."}
    /\ patch_out[3] = "Patch applied successfully!"

\* C6: idempotence. Once the Patcher has run on the found file, a further
\* run leaves the content as the run before left it, writes nothing and
\* reports success.
C6_Idempotent ==
    (runs = 2 /\ patch_exit = 0) =>
        /\ file = prev_file
        /\ ~wrote
        /\ ReportedSuccess
        /\ writes <= 1

\* a second run after a first run that did rewrite the file
C6_Witness ==
    /\ runs = 2
    /\ patch_exit = 0
    /\ writes = 1
    /\ ~wrote
    /\ Contains(file, collections_abc_Callable)

\* the file holds the updated reference in place of the deprecated one
HasUpdatedReference(content) ==
    /\ Contains(content, collections_abc_Callable)
    /\ ~Contains(content, collections_Callable)

\* the Patcher writes only a content that differs from the one it read
WritesOnlyChanges ==
    PatcherRan =>
        /\ wrote => file # prev_file
        /\ ~wrote => file = prev_file

HasUpdatedImport(content) ==
    \/ Contains(content, import_collections_abc)
    \/ AlreadyPatched(content)

C8_Original ==
    PatcherRan => ~Contains(file, collections_Callable)

\* number of leading comment and docstring lines of a file, every line of a
\* multi-line docstring included
RECURSIVE HeaderScan(_, _, _)
HeaderScan(lines, i, inDoc) ==
    IF i > Len(lines) THEN Len(lines)
    ELSE LET line == Strip(lines[i])
         IN  IF inDoc
             THEN HeaderScan(lines, i + 1, ~Contains(line, <<TQ>>))
             ELSE IF StartsWith(line, <<"#">>)
             THEN HeaderScan(lines, i + 1, FALSE)
             ELSE IF StartsWith(line, <<TQ>>)
             THEN HeaderScan(lines, i + 1, ~Contains(Tail(line), <<TQ>>))
             ELSE i - 1

HeaderLen(lines) == HeaderScan(lines, 1, FALSE)

\* 'import collections.abc' stands on the line right after 'import collections'
AppendedAfterImport(content) ==
    \E i \in 1..(Len(Split(content)) - 1) :
        /\ Split(content)[i] = import_collections
        /\ Split(content)[i + 1] = import_collections_abc

\* 'import collections.abc' stands right after the leading comment and
\* docstring lines of the content read, and nowhere before
InsertedAfterHeader(before, after) ==
    LET k == HeaderLen(Split(before))
    IN  /\ Len(Split(after)) > k
        /\ Split(after)[k + 1] = import_collections_abc
        /\ \A j \in 1..k : Split(after)[j] # import_collections_abc

\* C9 as stated: a run that modifies a file lacking 'import collections.abc'
\* leaves the import right after an existing 'import collections', or, with
\* no such import, right after the leading comment and docstring lines.
C9_Original ==
    (PatcherRan /\ wrote /\ ~Contains(prev_file, import_collections_abc)) =>
        IF Contains(prev_file, import_collections)
        THEN AppendedAfterImport(file)
        ELSE InsertedAfterHeader(prev_file, file)

====
